---- MODULE Spec2Model ----
(***************************************************************************)
(* Model of src/main.cpp: a single-shot command-line tool that encrypts or *)
(* decrypts one file with AES-256-CBC under a key derived from a password  *)
(* by PBKDF2-HMAC-SHA1, storing the IV in front of the ciphertext.         *)
(*                                                                         *)
(* Bytes are naturals in 0..255 and byte buffers are sequences.  The       *)
(* OpenSSL primitives the program calls are modelled by their documented   *)
(* interface: the EVP update/final buffering and PKCS#7 padding rules are  *)
(* modelled as the library implements them; the AES-256 block transform    *)
(* and the PBKDF2 pseudo-random function are replaced by small keyed       *)
(* functions with the same shape (a keyed permutation of 16-byte blocks    *)
(* with a separately written inverse; a deterministic map from password,   *)
(* salt and iteration count to 32 key bytes).                              *)
(***************************************************************************)
EXTENDS Integers, Sequences, FiniteSets, TLC

VARIABLES
    pc,          \* position of main() (or phase of the codec harness)
    status,      \* "running", "exit0", "exit1", "abort" (SIGABRT), "segv"
    encrypt,     \* bool encrypt
    decrypt,     \* bool decrypt
    inputFile,   \* std::string inputFile
    outputFile,  \* std::string outputFile
    password,    \* std::string password (a byte sequence)
    cnt,         \* how often getopt returned each option (history)
    key,         \* unsigned char key[AES_KEY_LENGTH]
    iv,          \* unsigned char iv[AES_BLOCK_SIZE]
    fileData,    \* std::vector<unsigned char> fileData
    resultData,  \* std::vector<unsigned char> resultData
    outFile,     \* the output file: whether opened, and the bytes written
    trace,       \* steps performed and lines printed so far, in order
    randRet,     \* what RAND_bytes returned ("1", "0", "-1"), or NotCalled
    unpacked,    \* codec harness: IV and body taken from the container
    recovered    \* codec harness: bytes returned by decryptDataWithIV

vars == <<pc, status, encrypt, decrypt, inputFile, outputFile, password, cnt,
          key, iv, fileData, resultData, outFile, trace, randRet,
          unpacked, recovered>>

(***************************************************************************)
(* Program constants.                                                      *)
(***************************************************************************)
AES_KEY_LENGTH == 32
AES_BLOCK_SIZE == 16
SaltLen == 8
Iterations == 10000
Salt == <<49, 50, 51, 52, 53, 54, 55, 56>>      \* "12345678"

(***************************************************************************)
(* Bounds of the model.                                                    *)
(***************************************************************************)
MaxArgs == 5        \* options getopt returns in one run
MaxPlainLen == 33   \* longest plaintext given to the codec harness
MaxSeed == 2        \* plaintext byte patterns 0..MaxSeed

NotCalled == "not called"
NoData == <<>>

(***************************************************************************)
(* Byte helpers.                                                           *)
(***************************************************************************)
RECURSIVE Xor(_, _)
Xor(a, b) ==
    IF a = 0 THEN b
    ELSE IF b = 0 THEN a
    ELSE ((a + b) % 2) + 2 * Xor(a \div 2, b \div 2)

XorBlock(x, y) == [i \in 1..AES_BLOCK_SIZE |-> Xor(x[i], y[i])]

Zeros(n) == [i \in 1..n |-> 0]

ResizeKeep(buf, n) == buf

\* std::vector::resize: truncate, or extend with value-initialised bytes
Resize(buf, n) ==
    IF n <= Len(buf) THEN SubSeq(buf, 1, n) ELSE buf \o Zeros(n - Len(buf))

\* the library writing `data` into a caller buffer at byte offset `off`
WriteAt(buf, off, data) ==
    [i \in 1..Len(buf) |->
        IF i > off /\ i <= off + Len(data) THEN data[i - off] ELSE buf[i]]

\* std::copy(first, last, dest.begin() + off)
Copy(src, dest, off) == WriteAt(dest, off, src)

(***************************************************************************)
(* OpenSSL primitives.                                                     *)
(***************************************************************************)
RECURSIVE Mix(_)
Mix(s) ==
    IF s = <<>> THEN 7
    ELSE (Mix(SubSeq(s, 1, Len(s) - 1)) * 31 + s[Len(s)] + 1) % 256

\* PKCS5_PBKDF2_HMAC_SHA1(pass, passlen, salt, saltlen, iter, keylen, out)
PKCS5_PBKDF2_HMAC_SHA1(pass, salt, saltlen, iter, keylen) ==
    LET h == Mix(pass \o SubSeq(salt, 1, saltlen))
    IN  [i \in 1..keylen |-> (h * (2 * i + 1) + iter + i * i) % 256]

Rot(i) == (i % AES_BLOCK_SIZE) + 1
RotInv(j) == ((j + AES_BLOCK_SIZE - 2) % AES_BLOCK_SIZE) + 1

\* the block transform of EVP_aes_256_cbc(): a keyed permutation of blocks
AES_encrypt_block(k, b) ==
    [i \in 1..AES_BLOCK_SIZE |->
        (b[Rot(i)] + k[i] + k[i + AES_BLOCK_SIZE]) % 256]

AES_decrypt_block(k, c) ==
    [j \in 1..AES_BLOCK_SIZE |->
        (c[RotInv(j)] + 512 - k[RotInv(j)] - k[RotInv(j) + AES_BLOCK_SIZE])
            % 256]

RECURSIVE CBCEncrypt(_, _, _)
CBCEncrypt(k, chain, data) ==
    IF Len(data) < AES_BLOCK_SIZE THEN <<>>
    ELSE LET c == AES_encrypt_block(k,
                      XorBlock(SubSeq(data, 1, AES_BLOCK_SIZE), chain))
         IN  c \o CBCEncrypt(k, c,
                      SubSeq(data, AES_BLOCK_SIZE + 1, Len(data)))

RECURSIVE CBCDecrypt(_, _, _)
CBCDecrypt(k, chain, data) ==
    IF Len(data) < AES_BLOCK_SIZE THEN <<>>
    ELSE LET c == SubSeq(data, 1, AES_BLOCK_SIZE)
         IN  XorBlock(AES_decrypt_block(k, c), chain)
                 \o CBCDecrypt(k, c,
                        SubSeq(data, AES_BLOCK_SIZE + 1, Len(data)))

LastBlock(data, dflt) ==
    IF Len(data) < AES_BLOCK_SIZE THEN dflt
    ELSE SubSeq(data, Len(data) - AES_BLOCK_SIZE + 1, Len(data))

\* EVP_EncryptInit_ex / EVP_DecryptInit_ex: a fresh context, padding on
EVP_CipherInit(k, v) ==
    [key |-> k, iv |-> v, buf |-> <<>>, final |-> <<>>, final_used |-> FALSE]

\* EVP_EncryptUpdate: encrypts the complete blocks, keeps the rest buffered
EVP_EncryptUpdate(ctx, in) ==
    LET data == ctx.buf \o in
        n    == (Len(data) \div AES_BLOCK_SIZE) * AES_BLOCK_SIZE
        out  == CBCEncrypt(ctx.key, ctx.iv, SubSeq(data, 1, n))
    IN  [ok  |-> TRUE,
         out |-> out,
         ctx |-> [ctx EXCEPT !.iv = LastBlock(out, ctx.iv),
                             !.buf = SubSeq(data, n + 1, Len(data))]]

\* EVP_EncryptFinal_ex: pads the buffered bytes with n bytes of value n
EVP_EncryptFinal_ex(ctx) ==
    LET n     == AES_BLOCK_SIZE - Len(ctx.buf)
        block == ctx.buf \o [i \in 1..n |-> n]
    IN  [ok  |-> TRUE,
         out |-> AES_encrypt_block(ctx.key, XorBlock(block, ctx.iv)),
         ctx |-> [ctx EXCEPT !.buf = <<>>]]

\* EVP_DecryptUpdate: decrypts the complete blocks; when the input ends on
\* a block boundary the last decrypted block is held back for the final call
EVP_DecryptUpdate(ctx, in) ==
    IF in = <<>> THEN [ok |-> TRUE, out |-> <<>>, ctx |-> ctx]
    ELSE
    LET data == ctx.buf \o in
        n    == (Len(data) \div AES_BLOCK_SIZE) * AES_BLOCK_SIZE
        full == SubSeq(data, 1, n)
        dec  == CBCDecrypt(ctx.key, ctx.iv, full)
        prev == IF ctx.final_used THEN ctx.final ELSE <<>>
        hold == n > 0 /\ n = Len(data)
    IN  [ok  |-> TRUE,
         out |-> IF hold THEN prev \o SubSeq(dec, 1, n - AES_BLOCK_SIZE)
                 ELSE prev \o dec,
         ctx |-> [ctx EXCEPT !.iv = LastBlock(full, ctx.iv),
                             !.buf = SubSeq(data, n + 1, Len(data)),
                             !.final = IF hold THEN LastBlock(dec, <<>>)
                                       ELSE <<>>,
                             !.final_used = hold]]

\* EVP_DecryptFinal_ex: fails on a partial or missing final block and on
\* malformed padding, otherwise returns the final block without its padding
EVP_DecryptFinal_ex(ctx) ==
    IF ctx.buf # <<>> \/ ~ctx.final_used
    THEN [ok |-> FALSE, out |-> <<>>, ctx |-> ctx]
    ELSE LET n == ctx.final[AES_BLOCK_SIZE]
         IN  IF n = 0 \/ n > AES_BLOCK_SIZE
                THEN [ok |-> FALSE, out |-> <<>>, ctx |-> ctx]
             ELSE IF \E i \in 0..(n - 1) : ctx.final[AES_BLOCK_SIZE - i] # n
                THEN [ok |-> FALSE, out |-> <<>>, ctx |-> ctx]
             ELSE [ok |-> TRUE,
                   out |-> SubSeq(ctx.final, 1, AES_BLOCK_SIZE - n),
                   ctx |-> ctx]

\* faults a primitive can report independently of its input
CipherFaults == {"none", "ctx_new", "init", "update", "final"}

(***************************************************************************)
(* The program's functions.  Each returns a record: how the call ended     *)
(* ("ok", "abort" through handleErrors or std::terminate, "segv"), the     *)
(* value returned and the library calls and prints it made, in order.      *)
(***************************************************************************)
Ended(how, ev) == [status |-> how, result |-> NoData, events |-> ev]

\* handleErrors: prints the OpenSSL error queue and calls abort()
handleErrors(ev) == Ended("abort", ev \o <<"handleErrors">>)

\* generateKeyFromPassword; ret is what PKCS5_PBKDF2_HMAC_SHA1 returns
generateKeyFromPassword(pw, ret) ==
    IF ret # 1
    THEN handleErrors(<<"PBKDF2">>)
    ELSE [status |-> "ok",
          result |-> PKCS5_PBKDF2_HMAC_SHA1(pw, Salt, SaltLen, Iterations,
                                            AES_KEY_LENGTH),
          events |-> <<"PBKDF2">>]

packOffByOne(v, ciphertext) ==
    LET result == Zeros(AES_BLOCK_SIZE + Len(ciphertext))
        withIV == WriteAt(result, 0, SubSeq(v, 1, AES_BLOCK_SIZE))
    IN  WriteAt(withIV, AES_BLOCK_SIZE - 1, ciphertext)

\* the container: result = IV followed by ciphertext
pack(v, ciphertext) ==
    LET result == Zeros(AES_BLOCK_SIZE + Len(ciphertext))
        withIV == Copy(SubSeq(v, 1, AES_BLOCK_SIZE), result, 0)
    IN  Copy(ciphertext, withIV, AES_BLOCK_SIZE)

unpackOffByOne(data, oob) ==
    [iv |-> [i \in 1..AES_BLOCK_SIZE |->
                IF i <= Len(data) THEN data[i] ELSE oob.bytes[i]],
     ct |-> SubSeq(data, AES_BLOCK_SIZE, Len(data) - 1)]

\* what decryptDataWithIV takes from its input: the first AES_BLOCK_SIZE
\* bytes as IV (bytes past the end of a short input come from oob) and the
\* bytes from offset AES_BLOCK_SIZE on as ciphertext
unpack(data, oob) ==
    [iv |-> [i \in 1..AES_BLOCK_SIZE |->
                IF i <= Len(data) THEN data[i] ELSE oob.bytes[i]],
     ct |-> SubSeq(data, AES_BLOCK_SIZE + 1, Len(data))]

encryptDataWithIV(plaintext, k, v, fault) ==
    IF fault = "ctx_new" THEN handleErrors(<<>>)
    ELSE IF fault = "init"
    THEN handleErrors(<<"EVP_EncryptInit_ex">>)
    ELSE
    LET ctx  == EVP_CipherInit(k, v)
        buf0 == Zeros(Len(plaintext) + AES_BLOCK_SIZE)
        u    == EVP_EncryptUpdate(ctx, plaintext)
    IN  IF fault = "update" \/ ~u.ok
        THEN handleErrors(<<"EVP_EncryptInit_ex", "EVP_EncryptUpdate">>)
        ELSE
        LET buf1 == WriteAt(buf0, 0, u.out)
            len  == Len(u.out)
            f    == EVP_EncryptFinal_ex(u.ctx)
        IN  IF fault = "final" \/ ~f.ok
            THEN handleErrors(<<"EVP_EncryptInit_ex", "EVP_EncryptUpdate",
                                  "EVP_EncryptFinal_ex">>)
            ELSE
            LET buf2           == WriteAt(buf1, len, f.out)
                ciphertext_len == len + Len(f.out)
                ciphertext     == Resize(buf2, ciphertext_len)
            IN  [status |-> "ok",
                 result |-> pack(v, ciphertext),
                 events |-> <<"EVP_EncryptInit_ex", "EVP_EncryptUpdate",
                              "EVP_EncryptFinal_ex", "pack">>]

\* if (1 != EVP_DecryptFinal_ex(...)): the call failed, on its own (fault)
\* or because of the data (f.ok)
DecryptFinalUnchecked(f, fault) == FALSE

DecryptFinalFailed(f, fault) == fault = "final" \/ ~f.ok

\* oob: outcome of reading past the end of a short input: a crash
\* (oob.segv) or the bytes found there (oob.bytes)
decryptDataWithIV(ciphertext, k, oob, fault) ==
    LET short == Len(ciphertext) < AES_BLOCK_SIZE
        pre   == IF short THEN <<"overread">> ELSE <<>>
    IN
    IF short /\ oob.segv THEN Ended("segv", pre)
    ELSE
    LET un   == unpack(ciphertext, oob)
        ev0  == pre \o <<"extract_iv", "print_extracted_iv">>
    IN
    IF fault = "ctx_new" THEN handleErrors(ev0)
    ELSE IF fault = "init"
    THEN handleErrors(ev0 \o <<"EVP_DecryptInit_ex">>)
    ELSE IF short
    \* size() - AES_BLOCK_SIZE wraps around in size_t and exceeds
    \* max_size(): the vector constructor throws, nothing catches it
    THEN Ended("abort", ev0 \o <<"EVP_DecryptInit_ex", "length_error">>)
    ELSE
    LET ctx  == EVP_CipherInit(k, un.iv)
        buf0 == Zeros(Len(ciphertext) - AES_BLOCK_SIZE)
        u    == EVP_DecryptUpdate(ctx, un.ct)
    IN  IF fault = "update" \/ ~u.ok
        THEN handleErrors(ev0 \o <<"EVP_DecryptInit_ex",
                                     "EVP_DecryptUpdate">>)
        ELSE
        LET buf1 == WriteAt(buf0, 0, u.out)
            len  == Len(u.out)
            f    == EVP_DecryptFinal_ex(u.ctx)
        IN  IF DecryptFinalFailed(f, fault)
            THEN handleErrors(ev0 \o <<"EVP_DecryptInit_ex",
                                         "EVP_DecryptUpdate",
                                         "EVP_DecryptFinal_ex">>)
            ELSE
            LET buf2          == WriteAt(buf1, len, f.out)
                plaintext_len == len + Len(f.out)
            IN  [status |-> "ok",
                 result |-> Resize(buf2, plaintext_len),
                 events |-> ev0 \o <<"EVP_DecryptInit_ex",
                                     "EVP_DecryptUpdate",
                                     "EVP_DecryptFinal_ex">>]

(***************************************************************************)
(* Inputs.                                                                 *)
(***************************************************************************)
Pat(s, n) ==
    [i \in 1..n |-> IF s = 0 THEN 1 + (i % 3) ELSE (s * 53 + i * 7) % 256]

IVs == { Zeros(AES_BLOCK_SIZE),
         [i \in 1..AES_BLOCK_SIZE |-> (i * 17 + 3) % 256],
         [i \in 1..AES_BLOCK_SIZE |-> 255 - i] }

PwA == <<65>>
PwB == <<66>>
PwSecret == <<115, 101, 99, 114, 101, 116>>
HelloWorld == <<72, 101, 108, 108, 111, 32, 87, 111, 114, 108, 100>>

Options == {"e", "d", "i", "o", "p"}
FileNames == {"", "f", "g"}
PasswordArgs == {<<>>, PwA, PwB}

KeyOf(pw) == generateKeyFromPassword(pw, 1).result

RunPlaintexts ==
    {HelloWorld} \cup {Pat(s, n) : s \in {0, 1}, n \in {0, 16, 17}}

RunIVs == { Zeros(AES_BLOCK_SIZE),
            [i \in 1..AES_BLOCK_SIZE |-> (i * 17 + 3) % 256] }

Containers ==
    {encryptDataWithIV(p, KeyOf(w), v, "none").result :
        p \in RunPlaintexts, w \in {PwA, PwB}, v \in RunIVs}

Damaged ==
    UNION {
        { SubSeq(c, 1, m) : m \in {0, 10, 16, 20, Len(c) - 16, Len(c) - 1} }
          \cup { [c EXCEPT ![Len(c)] = (c[Len(c)] + 1) % 256] }
        : c \in {encryptDataWithIV(p, KeyOf(PwA), Zeros(AES_BLOCK_SIZE),
                                   "none").result : p \in RunPlaintexts} }

InputFiles == RunPlaintexts \cup Containers \cup Damaged

Total == cnt["e"] + cnt["d"] + cnt["i"] + cnt["o"] + cnt["p"]


\* what the bytes beyond a short buffer can turn out to be
OobOutcomes ==
    {[segv |-> TRUE, bytes |-> NoData]}
        \cup {[segv |-> FALSE, bytes |-> v] : v \in RunIVs}

NoOob == [segv |-> FALSE, bytes |-> NoData]

(***************************************************************************)
(* main(): one run of the program.                                         *)
(***************************************************************************)
InitRun ==
    /\ pc = "getopt"
    /\ status = "running"
    /\ encrypt = FALSE
    /\ decrypt = FALSE
    /\ inputFile = ""
    /\ outputFile = ""
    /\ password = <<>>
    /\ cnt = [o \in Options |-> 0]
    /\ key = NoData
    /\ iv = NoData
    /\ fileData = NoData
    /\ resultData = NoData
    /\ outFile = [opened |-> FALSE, data |-> NoData]
    /\ trace = <<>>
    /\ randRet = NotCalled
    /\ unpacked = [iv |-> NoData, ct |-> NoData]
    /\ recovered = [status |-> "none", result |-> NoData]

Init == InitRun

harness == <<unpacked, recovered>>
buffers == <<key, iv, fileData, resultData, outFile, randRet>>
flags == <<encrypt, decrypt, inputFile, outputFile, password, cnt>>

\* the process ends: exit(code), return from main, abort() or a signal
Exit(how, ev) ==
    /\ status' = how
    /\ pc' = "exited"
    /\ trace' = trace \o ev

CanGetopt == pc = "getopt" /\ Total < MaxArgs

GetoptE ==
    /\ CanGetopt
    /\ encrypt' = TRUE
    /\ cnt' = [cnt EXCEPT !["e"] = @ + 1]
    /\ UNCHANGED <<pc, status, decrypt, inputFile, outputFile, password,
                   buffers, trace, harness>>

GetoptD ==
    /\ CanGetopt
    /\ decrypt' = TRUE
    /\ cnt' = [cnt EXCEPT !["d"] = @ + 1]
    /\ UNCHANGED <<pc, status, encrypt, inputFile, outputFile, password,
                   buffers, trace, harness>>

GetoptI ==
    /\ CanGetopt
    /\ \E optarg \in FileNames : inputFile' = optarg
    /\ cnt' = [cnt EXCEPT !["i"] = @ + 1]
    /\ UNCHANGED <<pc, status, encrypt, decrypt, outputFile, password,
                   buffers, trace, harness>>

GetoptO ==
    /\ CanGetopt
    /\ \E optarg \in FileNames : outputFile' = optarg
    /\ cnt' = [cnt EXCEPT !["o"] = @ + 1]
    /\ UNCHANGED <<pc, status, encrypt, decrypt, inputFile, password,
                   buffers, trace, harness>>

GetoptP ==
    /\ CanGetopt
    /\ \E optarg \in PasswordArgs : password' = optarg
    /\ cnt' = [cnt EXCEPT !["p"] = @ + 1]
    /\ UNCHANGED <<pc, status, encrypt, decrypt, inputFile, outputFile,
                   buffers, trace, harness>>

\* getopt returns '?': an unknown option, or -i, -o, -p without argument
GetoptDefault ==
    /\ pc = "getopt"
    /\ Exit("exit1", <<"bad_option", "printUsage">>)
    /\ UNCHANGED <<flags, buffers, harness>>

\* getopt returns -1
GetoptEnd ==
    /\ pc = "getopt"
    /\ pc' = "validate"
    /\ UNCHANGED <<status, flags, buffers, trace, harness>>

ArgsRejectedNoPassword(e, d, inF, outF, pw) ==
    (e /\ d) \/ (~e /\ ~d) \/ inF = "" \/ outF = ""

ArgsRejected(e, d, inF, outF, pw) ==
    (e /\ d) \/ (~e /\ ~d) \/ inF = "" \/ outF = "" \/ pw = <<>>

Validate ==
    /\ pc = "validate"
    /\ IF ArgsRejected(encrypt, decrypt, inputFile, outputFile, password)
       THEN Exit("exit1", <<"printUsage">>)
       ELSE /\ pc' = "derive"
            /\ UNCHANGED <<status, trace>>
    /\ UNCHANGED <<flags, buffers, harness>>

DeriveKey ==
    /\ pc = "derive"
    /\ \E ret \in {0, 1} :
        LET r == generateKeyFromPassword(password, ret)
        IN  IF r.status = "ok"
            THEN /\ key' = r.result
                 /\ pc' = "read"
                 /\ trace' = trace \o r.events
                 /\ UNCHANGED status
            ELSE /\ Exit(r.status, r.events)
                 /\ UNCHANGED key
    /\ UNCHANGED <<flags, iv, fileData, resultData, outFile, randRet,
                   harness>>

AfterReadAlwaysRand(e, d) == "rand"

\* if (encrypt) { RAND_bytes ... } else if (decrypt) { ... }
AfterRead(e, d) == IF e THEN "rand" ELSE IF d THEN "decrypt" ELSE "write"

ReadFile ==
    /\ pc = "read"
    /\ \/ /\ Exit("exit1", <<"open_in", "cannot_open_in">>)
          /\ UNCHANGED fileData
       \/ \E content \in InputFiles :
             /\ fileData' = content
             /\ trace' = trace \o <<"open_in", "read">>
             /\ pc' = AfterRead(encrypt, decrypt)
             /\ UNCHANGED status
    /\ UNCHANGED <<flags, key, iv, resultData, outFile, randRet, harness>>

\* RAND_bytes returns 1, 0 or -1; the test is !RAND_bytes(...).  After a
\* return other than 1 the array iv holds whatever it held before
RandFailed(ret) == ret = "0"

GenerateIV ==
    /\ pc = "rand"
    /\ \E ret \in {"1", "0", "-1"}, bytes \in RunIVs :
        /\ randRet' = ret
        /\ IF RandFailed(ret)
           THEN /\ Exit(handleErrors(<<"RAND_bytes">>).status,
                        handleErrors(<<"RAND_bytes">>).events)
                /\ UNCHANGED iv
           ELSE /\ iv' = bytes
                /\ trace' = trace \o <<"RAND_bytes", "print_generated_iv">>
                /\ pc' = "encrypt"
                /\ UNCHANGED status
    /\ UNCHANGED <<flags, key, fileData, resultData, outFile, harness>>

Encrypt ==
    /\ pc = "encrypt"
    /\ \E fault \in CipherFaults :
        LET r == encryptDataWithIV(fileData, key, iv, fault)
        IN  IF r.status = "ok"
            THEN /\ resultData' = r.result
                 /\ trace' = trace \o r.events
                 /\ pc' = "write"
                 /\ UNCHANGED status
            ELSE /\ Exit(r.status, r.events)
                 /\ UNCHANGED resultData
    /\ UNCHANGED <<flags, key, iv, fileData, outFile, randRet, harness>>

Decrypt ==
    /\ pc = "decrypt"
    /\ \E fault \in CipherFaults, oob \in OobOutcomes :
        LET r == decryptDataWithIV(fileData, key, oob, fault)
        IN  IF r.status = "ok"
            THEN /\ resultData' = r.result
                 /\ trace' = trace \o r.events
                 /\ pc' = "write"
                 /\ UNCHANGED status
            ELSE /\ Exit(r.status, r.events)
                 /\ UNCHANGED resultData
    /\ UNCHANGED <<flags, key, iv, fileData, outFile, randRet, harness>>

WriteFile ==
    /\ pc = "write"
    /\ \/ /\ Exit("exit1", <<"open_out", "cannot_open_out">>)
          /\ UNCHANGED outFile
       \/ /\ outFile' = [opened |-> TRUE, data |-> resultData]
          /\ trace' = trace \o <<"open_out", "write">>
          /\ pc' = "finish"
          /\ UNCHANGED status
    /\ UNCHANGED <<flags, key, iv, fileData, resultData, randRet, harness>>

Finish ==
    /\ pc = "finish"
    /\ Exit("exit0", <<"success">>)
    /\ UNCHANGED <<flags, buffers, harness>>

Next ==
    \/ GetoptE \/ GetoptD \/ GetoptI \/ GetoptO \/ GetoptP
    \/ GetoptDefault \/ GetoptEnd \/ Validate
    \/ DeriveKey \/ ReadFile \/ GenerateIV \/ Encrypt \/ Decrypt
    \/ WriteFile \/ Finish

Spec == Init /\ [][Next]_vars


(***************************************************************************)
(* The codec harness: the program's functions applied to chosen inputs.    *)
(* fileData is the plaintext P, password is W, iv the IV chosen at         *)
(* encryption, resultData the container.                                   *)
(***************************************************************************)
CodecPlaintexts ==
    {HelloWorld} \cup {Pat(s, n) : s \in 0..MaxSeed, n \in 0..MaxPlainLen}

CodecPasswords == {<<>>, PwA, PwB, PwSecret}

InitCodec ==
    /\ pc = "c_start"
    /\ status = "running"
    /\ encrypt = FALSE
    /\ decrypt = FALSE
    /\ inputFile = ""
    /\ outputFile = ""
    /\ password \in CodecPasswords
    /\ cnt = [o \in Options |-> 0]
    /\ key = NoData
    /\ iv \in IVs
    /\ fileData \in CodecPlaintexts
    /\ resultData = NoData
    /\ outFile = [opened |-> FALSE, data |-> NoData]
    /\ trace = <<>>
    /\ randRet = NotCalled
    /\ unpacked = [iv |-> NoData, ct |-> NoData]
    /\ recovered = [status |-> "none", result |-> NoData]

codecFixed == <<status, flags, iv, fileData, outFile, trace, randRet>>

CodecDerive ==
    /\ pc = "c_start"
    /\ key' = generateKeyFromPassword(password, 1).result
    /\ pc' = "c_keyed"
    /\ UNCHANGED <<codecFixed, resultData, unpacked, recovered>>

CodecEncrypt ==
    /\ pc = "c_keyed"
    /\ resultData' = encryptDataWithIV(fileData, key, iv, "none").result
    /\ pc' = "c_encrypted"
    /\ UNCHANGED <<codecFixed, key, unpacked, recovered>>

CodecUnpack ==
    /\ pc = "c_encrypted"
    /\ unpacked' = unpack(resultData, NoOob)
    /\ pc' = "c_unpacked"
    /\ UNCHANGED <<codecFixed, key, resultData, recovered>>

\* decryption derives its key from the password again
CodecDecrypt ==
    /\ pc = "c_unpacked"
    /\ LET r == decryptDataWithIV(resultData,
                    generateKeyFromPassword(password, 1).result,
                    NoOob, "none")
       IN  recovered' = [status |-> r.status, result |-> r.result]
    /\ pc' = "c_decrypted"
    /\ UNCHANGED <<codecFixed, key, resultData, unpacked>>

\* pack and unpack alone, on fileData taken as a ciphertext of any length
CodecPackRaw ==
    /\ pc = "c_start"
    /\ resultData' = pack(iv, fileData)
    /\ unpacked' = unpack(pack(iv, fileData), NoOob)
    /\ pc' = "c_packed_raw"
    /\ UNCHANGED <<codecFixed, key, recovered>>

NextCodec ==
    \/ CodecDerive \/ CodecEncrypt \/ CodecUnpack \/ CodecDecrypt
    \/ CodecPackRaw

SpecCodec == InitCodec /\ [][NextCodec]_vars


(***************************************************************************)
(* Vocabulary of the properties.                                           *)
(***************************************************************************)
Did(e) == \E i \in 1..Len(trace) : trace[i] = e

IsPrefix(a, b) == Len(a) <= Len(b) /\ a = SubSeq(b, 1, Len(a))

\* PKCS#7: n bytes of value n, n = 16 - (length mod 16)
PKCS7Pad(p) ==
    LET n == AES_BLOCK_SIZE - (Len(p) % AES_BLOCK_SIZE)
    IN  p \o [i \in 1..n |-> n]

WellPadded(b) ==
    /\ b[AES_BLOCK_SIZE] \in 1..AES_BLOCK_SIZE
    /\ \A i \in 1..AES_BLOCK_SIZE :
          i > AES_BLOCK_SIZE - b[AES_BLOCK_SIZE] => b[i] = b[AES_BLOCK_SIZE]

\* CBC ciphertext of the padded plaintext, computed in one piece
RefCiphertext == CBCEncrypt(key, iv, PKCS7Pad(fileData))

Encrypted == pc \in {"c_encrypted", "c_unpacked", "c_decrypted"}

InLen == Len(fileData)
BodyLen == InLen - AES_BLOCK_SIZE
WholeBlocks == BodyLen > 0 /\ BodyLen % AES_BLOCK_SIZE = 0

\* the last block of the body of the input file as it decrypts under key
FinalPlainBlock ==
    LastBlock(CBCDecrypt(key, SubSeq(fileData, 1, AES_BLOCK_SIZE),
                         SubSeq(fileData, AES_BLOCK_SIZE + 1, InLen)),
              NoData)

EncryptRun == encrypt /\ ~decrypt
DecryptRun == decrypt /\ ~encrypt
PastValidation == pc \notin {"getopt", "validate"} /\ ~Did("printUsage")
\* a decrypt run in which decryptDataWithIV has been called and has ended
DecryptCalled == DecryptRun /\ Did("read") /\ pc # "decrypt"

StepEvents ==
    {"PBKDF2", "open_in", "RAND_bytes", "EVP_EncryptInit_ex", "pack",
     "extract_iv", "EVP_DecryptInit_ex", "open_out"}
IsStep(e) == e \in StepEvents
Steps == SelectSeq(trace, IsStep)

EncOrder ==
    <<"PBKDF2", "open_in", "RAND_bytes", "EVP_EncryptInit_ex", "pack",
      "open_out">>
DecOrder ==
    <<"PBKDF2", "open_in", "extract_iv", "EVP_DecryptInit_ex", "open_out">>
ClaimedEncOrder ==
    <<"open_in", "PBKDF2", "RAND_bytes", "EVP_EncryptInit_ex", "pack",
      "open_out">>
ClaimedDecOrder ==
    <<"open_in", "PBKDF2", "extract_iv", "EVP_DecryptInit_ex", "open_out">>

(***************************************************************************)
(* Properties.                                                             *)
(***************************************************************************)

\* C1: round trip.  For every non-empty plaintext P, non-empty password W
\* and IV, decryptDataWithIV under the key derived from W, applied to the
\* container encryptDataWithIV(P, key(W), iv) made, returns exactly P.
RoundTrip ==
    (pc = "c_decrypted" /\ Len(fileData) > 0 /\ Len(password) > 0)
        => (recovered.status = "ok" /\ recovered.result = fileData)

RoundTripWitness ==
    /\ pc = "c_decrypted"
    /\ Len(fileData) = 2 * AES_BLOCK_SIZE
    /\ password = PwSecret
    /\ recovered.result = fileData

\* C2 (as claimed): a decrypt run on an input shorter than 16 bytes fails
\* with a malformed-container error and non-zero status, never reaches
\* EVP_DecryptInit_ex, never reads past the end of the input and writes
\* nothing to the output file.
ShortInputRejected ==
    (DecryptCalled /\ InLen < AES_BLOCK_SIZE)
        => /\ Did("malformed_container")
           /\ ~Did("EVP_DecryptInit_ex")
           /\ ~Did("overread")
           /\ status \in {"exit1", "abort"}
           /\ ~outFile.opened

\* C3 (as claimed): the output file is opened only after key derivation,
\* the read of the input, IV generation or extraction and the encryption
\* or decryption have all succeeded, and a run that ends in a usage error,
\* an input-open failure or a cryptographic failure never opens it.
OutputOnlyAfterSuccess ==
    /\ Did("open_out")
          => /\ Len(key) = AES_KEY_LENGTH
             /\ Did("read")
             /\ EncryptRun => (randRet = "1" /\ Did("pack"))
             /\ DecryptRun
                   => (Did("extract_iv") /\ Did("EVP_DecryptFinal_ex"))
             /\ ~Did("handleErrors")
    /\ (Did("printUsage") \/ Did("cannot_open_in") \/ status = "abort"
           \/ status = "segv")
          => (~Did("open_out") /\ ~outFile.opened)

\* C4: for a plaintext of length n the container has length
\* 16 + 16 * (n div 16 + 1); 11 bytes give 32, a 16-byte plaintext gives a
\* 32-byte body, and the body is never empty.
ContainerLength ==
    Encrypted
        => /\ Len(resultData)
                = AES_BLOCK_SIZE
                    + AES_BLOCK_SIZE * ((Len(fileData) \div AES_BLOCK_SIZE) + 1)
           /\ Len(resultData) - AES_BLOCK_SIZE > 0
           /\ fileData = HelloWorld => Len(resultData) = 2 * AES_BLOCK_SIZE
           /\ Len(fileData) = AES_BLOCK_SIZE
                 => Len(resultData) - AES_BLOCK_SIZE = 2 * AES_BLOCK_SIZE

ContainerLengthWitness ==
    /\ pc = "c_encrypted"
    /\ Len(fileData) = AES_BLOCK_SIZE
    /\ Len(resultData) = 3 * AES_BLOCK_SIZE

\* C5: a decrypt run whose final decrypted block has malformed padding
\* ends in handleErrors and abort: no plaintext is returned, the output
\* file is not written and the success line is not printed.
BadPaddingAborts ==
    (DecryptCalled /\ WholeBlocks /\ ~WellPadded(FinalPlainBlock))
        => /\ pc = "exited"
           /\ status = "abort"
           /\ Did("handleErrors")
           /\ resultData = NoData
           /\ ~outFile.opened
           /\ ~Did("open_out")
           /\ ~Did("success")

\* a container made with password A, decrypted with password B
BadPaddingWitness ==
    /\ DecryptCalled
    /\ fileData \in Containers
    /\ password = PwB
    /\ ~WellPadded(FinalPlainBlock)
    /\ trace[Len(trace)] = "handleErrors"
    /\ Did("EVP_DecryptFinal_ex")
    /\ status = "abort"

\* C6: the container is the IV used for the cipher followed by the
\* ciphertext and nothing else; unpacking takes bytes 0..15 as the IV and
\* the rest as the ciphertext; unpack(pack(iv, ct)) = (iv, ct) for a ct of
\* any length.
ContainerLayout ==
    /\ Encrypted => resultData = iv \o RefCiphertext
    /\ pc \in {"c_unpacked", "c_decrypted"}
          => (unpacked.iv = iv /\ unpacked.ct = RefCiphertext)
    /\ pc = "c_packed_raw"
          => /\ resultData = iv \o fileData
             /\ unpacked = [iv |-> iv, ct |-> fileData]

ContainerLayoutWitness ==
    /\ pc = "c_unpacked"
    /\ Len(fileData) = AES_BLOCK_SIZE + 1
    /\ Len(unpacked.ct) = 2 * AES_BLOCK_SIZE
    /\ resultData = unpacked.iv \o unpacked.ct

\* C7 (as claimed): a run gets past validation only when exactly one of
\* -e/-d and exactly one each of -i, -o, -p were given.
OnlyExactlyOneEach ==
    PastValidation
        => /\ cnt["e"] + cnt["d"] = 1
           /\ cnt["i"] = 1
           /\ cnt["o"] = 1
           /\ cnt["p"] = 1

BadArgs ==
    \/ cnt["e"] > 0 /\ cnt["d"] > 0
    \/ cnt["e"] = 0 /\ cnt["d"] = 0
    \/ cnt["i"] = 0 \/ inputFile = ""
    \/ cnt["o"] = 0 \/ outputFile = ""
    \/ cnt["p"] = 0 \/ password = <<>>

\* C7 (amended): when neither or both of -e/-d were given, when -i, -o or
\* -p is missing or its last value is empty, or when getopt reports an
\* unknown option or a missing argument, main prints the usage text and
\* exits 1 before deriving a key or touching a file; a repeated option is
\* accepted (the last value counts).
ArgumentValidation ==
    /\ PastValidation => ~BadArgs
    /\ (pc \notin {"getopt", "validate"} /\ (BadArgs \/ Did("bad_option")))
          => Did("printUsage")
    /\ Did("printUsage")
          => /\ pc = "exited"
             /\ status = "exit1"
             /\ trace[Len(trace)] = "printUsage"
             /\ ~Did("PBKDF2")
             /\ ~Did("open_in")
             /\ ~Did("open_out")
             /\ key = NoData
             /\ ~outFile.opened

\* a run with -i given twice that got past validation
RepeatedOptionWitness ==
    /\ PastValidation
    /\ cnt["i"] = 2
    /\ Did("PBKDF2")

\* C8 (as claimed): exit 0 only when the operation completed and its whole
\* result was handed to the output file; exit 1 on a usage error or a file
\* that cannot be opened; abort on any failure of a cryptographic
\* primitive (key derivation, RNG, cipher); no failing run exits 0 or
\* prints the success line.
ExitStatusMapping ==
    /\ status = "exit0"
          => /\ Did("write")
             /\ outFile = [opened |-> TRUE, data |-> resultData]
             /\ Did("success")
    /\ Did("success") => status = "exit0"
    /\ (Did("printUsage") \/ Did("cannot_open_in") \/ Did("cannot_open_out"))
          => status = "exit1"
    /\ Did("handleErrors") => status = "abort"
    /\ randRet \in {"0", "-1"}
          => (status = "abort" /\ ~Did("success") /\ ~outFile.opened)

\* C9 (as claimed): the input file is read before the key is derived.
StepOrderAsClaimed ==
    /\ EncryptRun => IsPrefix(Steps, ClaimedEncOrder)
    /\ DecryptRun => IsPrefix(Steps, ClaimedDecOrder)
    /\ Did("cannot_open_in") => ~Did("PBKDF2")
    /\ Did("RAND_bytes") => EncryptRun

\* C9 (amended): an encrypt run derives the key, reads the plaintext,
\* generates the IV, encrypts, packs and writes, in this order; a decrypt
\* run derives the key, reads the container, unpacks, decrypts and writes.
\* The key is derived before the input file is opened, so an unreadable
\* input is reported after key derivation; RAND_bytes is called only in
\* an encrypt run.
StepOrder ==
    /\ EncryptRun => IsPrefix(Steps, EncOrder)
    /\ DecryptRun => IsPrefix(Steps, DecOrder)
    /\ (status = "exit0" /\ EncryptRun) => Steps = EncOrder
    /\ (status = "exit0" /\ DecryptRun) => Steps = DecOrder
    /\ Did("open_in") => Did("PBKDF2")
    /\ Did("RAND_bytes") => EncryptRun
    /\ randRet # NotCalled => EncryptRun

StepOrderWitness ==
    /\ status = "exit0"
    /\ EncryptRun
    /\ Steps = EncOrder
    /\ fileData = HelloWorld

\* C10: a decrypt run succeeds only on an input of length L >= 32 with
\* L - 16 a multiple of 16; an input with L >= 16 whose body is empty or
\* not a whole number of blocks ends in a cipher failure and writes no
\* output; a successful decrypt writes between L - 32 and L - 17 bytes.
DecryptLengths ==
    /\ (DecryptRun /\ (status = "exit0" \/ outFile.opened))
          => /\ InLen >= 2 * AES_BLOCK_SIZE
             /\ BodyLen % AES_BLOCK_SIZE = 0
             /\ Len(outFile.data) >= InLen - 2 * AES_BLOCK_SIZE
             /\ Len(outFile.data) <= InLen - AES_BLOCK_SIZE - 1
    /\ (DecryptCalled /\ InLen >= AES_BLOCK_SIZE /\ ~WholeBlocks)
          => /\ status = "abort"
             /\ Did("handleErrors")
             /\ ~outFile.opened
             /\ ~Did("open_out")

DecryptLengthsWitness ==
    /\ DecryptRun
    /\ status = "exit0"
    /\ InLen = 3 * AES_BLOCK_SIZE
    /\ Len(outFile.data) = AES_BLOCK_SIZE + 1

====
